---- MODULE Spec2Model ----
(***************************************************************************)
(* Model of src/main.py: the phonemic segmenter (segment_word /            *)
(* next_segment) and the n-gram continuation table (SegmentSummary).       *)
(*                                                                         *)
(* A Python str is modelled as a sequence of one-character strings, so     *)
(* "ng" is <<"n", "g">> and the empty string is <<>>.  Python indices are  *)
(* 0-based; the cursor i keeps the Python value and sequences are indexed  *)
(* with i + 1.                                                             *)
(***************************************************************************)
EXTENDS Integers, Sequences, FiniteSets, TLC

(***************************************************************************)
(* Bounds of the segmenter inputs.                                         *)
(***************************************************************************)
MaxWordLen == 3
MaxMultigraphs == 3
MaxRules == 2

\* Tokenization iterations allowed before the model stops following a call;
\* one more than any word needs, so that a non-advancing loop is visible.
MaxIter == MaxWordLen + 1

Alphabet == {"a", "n", "g"}

\* Strings a language may list as multigraphs (list[str], src/main.py:16).
MultigraphCandidates == {<<"n", "g">>, <<"n">>, <<"g">>, <<>>}

\* (pattern, replacement) pairs a language may list (src/main.py:15).
RuleCandidates == {<< <<"a">>, <<"b">> >>, << <<"b">>, <<"c">> >>}

\* Values a language may list as silent (src/main.py:17).
SilentCandidates == {<<"g">>, <<"n", "g">>}

SeqsUpTo(S, k) == UNION {[1..m -> S] : m \in 0..k}

InjectiveSeqsUpTo(S, k) ==
    {s \in SeqsUpTo(S, k) : \A p, q \in 1..Len(s) : p # q => s[p] # s[q]}

Words == SeqsUpTo(Alphabet, MaxWordLen)

\* funny_words dictionaries: none, or one irregular word.
FunnyWordChoices == {<<>>, [w \in {<<"a">>} |-> <<"n">>]}

LanguageSpecification ==
    [funny_words : FunnyWordChoices,
     replacement_rules : InjectiveSeqsUpTo(RuleCandidates, MaxRules),
     multigraphs : InjectiveSeqsUpTo(MultigraphCandidates, MaxMultigraphs),
     silent_segments : SUBSET SilentCandidates]

(***************************************************************************)
(* Python helpers.                                                         *)
(***************************************************************************)
Min(a, b) == IF a < b THEN a ELSE b

\* word[a:b] for 0 <= a <= b (Python slice: clipped to the string's end).
Slice(word, a, b) == SubSeq(word, a + 1, Min(b, Len(word)))

\* dict.get(key, default)
DictGet(d, key, default) == IF key \in DOMAIN d THEN d[key] ELSE default

\* "".replace-style interleaving: y before every character and at the end.
RECURSIVE Interleave(_, _)
Interleave(w, y) ==
    IF w = <<>> THEN y ELSE y \o <<Head(w)>> \o Interleave(Tail(w), y)

\* str.replace(x, y): every non-overlapping occurrence, left to right.
RECURSIVE StrReplace(_, _, _)
StrReplace(w, x, y) ==
    IF x = <<>> THEN Interleave(w, y)
    ELSE IF Len(w) < Len(x) THEN w
    ELSE IF SubSeq(w, 1, Len(x)) = x
         THEN y \o StrReplace(SubSeq(w, Len(x) + 1, Len(w)), x, y)
         ELSE <<Head(w)>> \o StrReplace(Tail(w), x, y)

(***************************************************************************)
(* segment_word, lines 136-149.                                            *)
(***************************************************************************)
VARIABLES
    lang,       \* the LanguageSpecification argument
    input,      \* the word argument as passed by the caller
    word,       \* the local `word`
    i,          \* the cursor
    segments,   \* the local list of kept Segment objects
    raw,        \* history: every segment next_segment returned, with its cursor
    pc          \* "start", "loop" or "done"

segVars == <<lang, input, word, i, segments, raw, pc>>

VARIABLES
    n,                    \* the order the owning caller passes to add and bytes
    ngram_continuations,  \* self.ngram_continuations
    trained,              \* history: segment list |-> number of add calls with it
    call,                 \* the query in progress, or [op |-> "idle"]
    result                \* what the query returned or raised

modelVars == <<n, ngram_continuations, trained, call, result>>

vars == <<lang, input, word, i, segments, raw, pc,
          n, ngram_continuations, trained, call, result>>

\* for x, y in rules: word = word.replace(x, y)     (lines 138-139)
RECURSIVE ApplyRulesSwapped(_, _)
ApplyRulesSwapped(w, rules) ==
    IF rules = <<>> THEN w
    ELSE StrReplace(ApplyRulesSwapped(w, Tail(rules)), Head(rules)[1], Head(rules)[2])

RECURSIVE ApplyRules(_, _)
ApplyRules(w, rules) ==
    IF rules = <<>> THEN w
    ELSE ApplyRules(StrReplace(w, Head(rules)[1], Head(rules)[2]), Tail(rules))

\* next_segment, lines 129-133; k is the position of the for loop.
RECURSIVE NextSegmentFrom(_, _, _, _)
NextSegmentFrom(multigraphs, w, c, k) ==
    IF k > Len(multigraphs) THEN <<w[c + 1]>>
    ELSE IF Slice(w, c, c + Len(multigraphs[k])) = multigraphs[k]
         THEN multigraphs[k]
         ELSE NextSegmentFrom(multigraphs, w, c, k + 1)

\* A tokenizer that prefers the longest matching multigraph.
NextSegmentLongest(multigraphs, w, c) ==
    LET hits == {k \in 1..Len(multigraphs) :
                    Slice(w, c, c + Len(multigraphs[k])) = multigraphs[k]}
    IN  IF hits = {} THEN <<w[c + 1]>>
        ELSE multigraphs[CHOOSE k \in hits :
                \A j \in hits : Len(multigraphs[j]) <= Len(multigraphs[k])]

NextSegment(multigraphs, w, c) == NextSegmentFrom(multigraphs, w, c, 1)

\* Lines 137-142: whole-word override, substitution rules, i = 0, segments = [].
Normalize ==
    /\ pc = "start"
    /\ word' = ApplyRules(DictGet(lang.funny_words, word, word),
                          lang.replacement_rules)
    /\ i' = 0
    /\ segments' = <<>>
    /\ pc' = "loop"
    /\ UNCHANGED <<lang, input, raw>>
    /\ UNCHANGED modelVars

\* Loop body that numbers a kept segment by the count of matched segments.
TokenizeRawPosition ==
    /\ pc = "loop"
    /\ i < Len(word)
    /\ Len(raw) < MaxIter
    /\ LET segment == NextSegment(lang.multigraphs, word, i)
       IN  /\ i' = i + Len(segment)
           /\ raw' = Append(raw, [value |-> segment, at |-> i])
           /\ segments' =
                IF segment \notin lang.silent_segments
                THEN Append(segments,
                            [value |-> segment, word_position |-> Len(raw)])
                ELSE segments
    /\ UNCHANGED <<lang, input, word, pc>>
    /\ UNCHANGED modelVars

\* Loop body that advances the cursor by one character.
TokenizeAdvanceOne ==
    /\ pc = "loop"
    /\ i < Len(word)
    /\ Len(raw) < MaxIter
    /\ LET segment == NextSegment(lang.multigraphs, word, i)
       IN  /\ i' = i + 1
           /\ raw' = Append(raw, [value |-> segment, at |-> i])
           /\ segments' =
                IF segment \notin lang.silent_segments
                THEN Append(segments,
                            [value |-> segment, word_position |-> Len(segments)])
                ELSE segments
    /\ UNCHANGED <<lang, input, word, pc>>
    /\ UNCHANGED modelVars

\* One iteration of the while loop, lines 143-147.
Tokenize ==
    /\ pc = "loop"
    /\ i < Len(word)
    /\ Len(raw) < MaxIter
    /\ LET segment == NextSegment(lang.multigraphs, word, i)
       IN  /\ i' = i + Len(segment)
           /\ raw' = Append(raw, [value |-> segment, at |-> i])
           /\ segments' =
                IF segment \notin lang.silent_segments
                THEN Append(segments,
                            [value |-> segment, word_position |-> Len(segments)])
                ELSE segments
    /\ UNCHANGED <<lang, input, word, pc>>
    /\ UNCHANGED modelVars

\* Loop exit and `return segments`, lines 143 and 149.
Return ==
    /\ pc = "loop"
    /\ ~(i < Len(word))
    /\ pc' = "done"
    /\ UNCHANGED <<lang, input, word, i, segments, raw>>
    /\ UNCHANGED modelVars


(***************************************************************************)
(* SegmentSummary, lines 279-309, and the callers that own an instance.    *)
(*                                                                         *)
(* add and bytes read only the `value` of each Segment, so a list of       *)
(* Segment objects is modelled by the list of its values.  A returned cost *)
(* -log2(count / total) is kept as the pair count, total it is computed    *)
(* from: it is 0 exactly when count = total and >= 0 exactly when          *)
(* count <= total.                                                         *)
(***************************************************************************)
MaxOrder == 2
MaxSegments == 2
MaxTrain == 2

\* EDGE_SEGMENT.value, line 279
EDGE == <<"#">>

\* Values of the segments of words: made of letters, so never the edge value.
SegmentValues == {<<"a">>, <<"b">>}

SegmentLists == SeqsUpTo(SegmentValues, MaxSegments)

Contexts == SeqsUpTo(SegmentValues \cup {EDGE}, MaxOrder)

RECURSIVE SumOver(_, _)
SumOver(S, f) ==
    IF S = {} THEN 0
    ELSE LET x == CHOOSE y \in S : TRUE IN f[x] + SumOver(S \ {x}, f)

RECURSIVE Repeat(_, _)
Repeat(v, k) == IF k = 0 THEN <<>> ELSE <<v>> \o Repeat(v, k - 1)

\* [EDGE_SEGMENT.value] * n + [s.value for s in segments] + [EDGE_SEGMENT.value]
SegmentsWithEdge(segs, k) == Repeat(EDGE, k) \o segs \o <<EDGE>>

\* A context one value short of the order.
ContextAtShort(padded, c, k) == SubSeq(padded, c + 2, c + k)

\* tuple(segments_with_edge[i:i+n]), line 289
ContextAt(padded, c, k) == SubSeq(padded, c + 1, Min(c + k, Len(padded)))

\* An inner mapping recreated on every visit of its context.
RecordReset(cont, start, segment) == (start :> (segment :> 1)) @@ cont

\* Lines 291-293: create the inner mapping on first use, then count.
Record(cont, start, segment) ==
    LET withStart == IF start \notin DOMAIN cont
                     THEN (start :> <<>>) @@ cont ELSE cont
        d == withStart[start]
    IN  (start :> ((segment :> (DictGet(d, segment, 0) + 1)) @@ d)) @@ withStart

\* for i in range(bound), lines 288-293, from iteration c on.
RECURSIVE AddLoop(_, _, _, _, _)
AddLoop(cont, padded, bound, k, c) ==
    IF c >= bound THEN cont
    ELSE AddLoop(Record(cont, ContextAt(padded, c, k), padded[c + k + 1]),
                 padded, bound, k, c + 1)

\* add with the trailing edge included in the loop.
AddWithTrailingEdge(cont, segs, k) ==
    AddLoop(cont, SegmentsWithEdge(segs, k), Len(segs) + 1, k, 0)

\* SegmentSummary.add, lines 286-293
Add(cont, segs, k) ==
    AddLoop(cont, SegmentsWithEdge(segs, k), Len(segs), k, 0)

\* A denominator that counts distinct continuations.
DenominatorDistinct(d) == Cardinality(DOMAIN d)

\* sum(d.values()), line 301
Denominator(d) == SumOver(DOMAIN d, d)

\* A lookup that falls back to a count of one for anything unseen.
SegmentBytesSmoothed(cont, value, context) ==
    IF context \notin DOMAIN cont
    THEN [kind |-> "value", count |-> 1, total |-> 1]
    ELSE LET d == cont[context]
         IN  [kind |-> "value", count |-> DictGet(d, value, 1),
              total |-> Denominator(d) + 1]

\* SegmentSummary.segment_bytes, lines 299-302; a missing key raises KeyError.
SegmentBytes(cont, value, context) ==
    IF context \notin DOMAIN cont
    THEN [kind |-> "KeyError", key |-> context]
    ELSE LET d == cont[context]
         IN  IF value \notin DOMAIN d
             THEN [kind |-> "KeyError", key |-> value]
             ELSE [kind |-> "value", count |-> d[value],
                   total |-> Denominator(d)]

\* for i in range(len(segments)): out += ..., lines 306-309, from iteration c on.
RECURSIVE BytesLoop(_, _, _, _, _, _)
BytesLoop(cont, padded, bound, k, c, out) ==
    IF c >= bound THEN [kind |-> "value", terms |-> out]
    ELSE LET r == SegmentBytes(cont, padded[c + k + 1], ContextAt(padded, c, k))
         IN  IF r.kind = "KeyError" THEN r
             ELSE BytesLoop(cont, padded, bound, k, c + 1,
                            Append(out, [count |-> r.count, total |-> r.total]))

\* SegmentSummary.bytes, lines 304-309
Bytes(cont, segs, k) ==
    BytesLoop(cont, SegmentsWithEdge(segs, k), Len(segs), k, 0, <<>>)

TrainCalls == SumOver(DOMAIN trained, trained)

\* ss.add(segments, n): one iteration of add_all, lines 295-297.
Train ==
    /\ call.op = "idle"
    /\ TrainCalls < MaxTrain
    /\ \E segs \in SegmentLists :
          /\ ngram_continuations' = Add(ngram_continuations, segs, n)
          /\ trained' = (segs :> (DictGet(trained, segs, 0) + 1)) @@ trained
    /\ UNCHANGED <<n, call, result>>
    /\ UNCHANGED segVars

\* ss.segment_bytes(segment, context), as called at line 502.
QuerySegment ==
    /\ call.op = "idle"
    /\ \E value \in SegmentValues, context \in Contexts :
          /\ call' = [op |-> "segment_bytes", segment |-> value,
                      context |-> context]
          /\ result' = SegmentBytes(ngram_continuations, value, context)
    /\ UNCHANGED <<n, ngram_continuations, trained>>
    /\ UNCHANGED segVars

\* ss.bytes(segments, n), as called at lines 347, 391, 425 and 539.
QuerySequence ==
    /\ call.op = "idle"
    /\ \E segs \in SegmentLists :
          /\ call' = [op |-> "bytes", segments |-> segs]
          /\ result' = Bytes(ngram_continuations, segs, n)
    /\ UNCHANGED <<n, ngram_continuations, trained>>
    /\ UNCHANGED segVars

\* The caller takes the returned cost (or the KeyError) and goes on.
Resume ==
    /\ call.op # "idle"
    /\ call' = [op |-> "idle"]
    /\ result' = [kind |-> "none"]
    /\ UNCHANGED <<n, ngram_continuations, trained>>
    /\ UNCHANGED segVars

\* ss = SegmentSummary() in a caller that works at order n (lines 342, 386).
ModelInit ==
    /\ n \in 0..MaxOrder
    /\ ngram_continuations = <<>>
    /\ trained = <<>>
    /\ call = [op |-> "idle"]
    /\ result = [kind |-> "none"]

\* The segmenter is parked while the table is exercised, and conversely.
SegParked ==
    /\ lang = [funny_words |-> <<>>, replacement_rules |-> <<>>,
               multigraphs |-> <<>>, silent_segments |-> {}]
    /\ input = <<>> /\ word = <<>> /\ i = 0
    /\ segments = <<>> /\ raw = <<>> /\ pc = "done"

ModelParked ==
    /\ n = 0 /\ ngram_continuations = <<>>
    /\ trained = <<>>
    /\ call = [op |-> "idle"] /\ result = [kind |-> "none"]

SegInit ==
    /\ lang \in LanguageSpecification
    /\ input \in Words
    /\ word = input
    /\ i = 0
    /\ segments = <<>>
    /\ raw = <<>>
    /\ pc = "start"
    /\ ModelParked

SegNext == Normalize \/ Tokenize \/ Return

SegSpec == SegInit /\ [][SegNext]_vars

NgramInit == ModelInit /\ SegParked

NgramNext == Train \/ QuerySegment \/ QuerySequence \/ Resume

NgramSpec == NgramInit /\ [][NgramNext]_vars

(***************************************************************************)
(* Properties of the segmenter.                                            *)
(***************************************************************************)
RECURSIVE Flatten(_)
Flatten(rs) == IF rs = <<>> THEN <<>> ELSE Head(rs).value \o Flatten(Tail(rs))

\* m occurs in w starting at 0-based offset c.
OccursAt(m, w, c) ==
    /\ c + Len(m) <= Len(w)
    /\ \A p \in 1..Len(m) : w[c + p] = m[p]

NoEmptyMultigraph == \A k \in 1..Len(lang.multigraphs) : lang.multigraphs[k] # <<>>

\* The matched segments tile the consumed prefix of the word: each starts
\* where the previous one ended, is non-empty and occurs in the word there.
Tiling ==
    /\ i <= Len(word)
    /\ Flatten(raw) = SubSeq(word, 1, i)
    /\ \A k \in 1..Len(raw) :
          /\ Len(raw[k].value) >= 1
          /\ raw[k].at = Len(Flatten(SubSeq(raw, 1, k - 1)))
          /\ OccursAt(raw[k].value, word, raw[k].at)
    /\ Len(raw) <= Len(word)
    /\ (pc = "loop" /\ i < Len(word)) => Len(raw) < MaxIter
    /\ pc = "done" => Flatten(raw) = word

\* C1 as stated: for every LanguageSpecification the loop consumes at least
\* one character per iteration (so it runs at most len(word) times and
\* terminates) and the matched segments, kept and silenced together,
\* concatenate to the word as it stands after override and substitution.
C1_TotalForEveryRules == pc # "start" => Tiling

\* C1 amended: the same, for every LanguageSpecification whose multigraphs
\* are all non-empty strings.
C1_TotalForNonEmptyMultigraphs == (pc # "start" /\ NoEmptyMultigraph) => Tiling

C1_Witness ==
    /\ pc = "done"
    /\ NoEmptyMultigraph
    /\ word # input
    /\ Len(raw) = 2
    /\ Len(raw[2].value) = 2
    /\ raw[2].value \in lang.silent_segments
    /\ Len(segments) = 1

\* C2: no output segment has a silent value, the kept segments are exactly
\* the non-silent matched segments in order, and the k-th kept segment
\* (counting from 0) carries word_position k.
C2_SilentDroppedPositionsGapFree ==
    /\ \A k \in 1..Len(segments) :
          /\ segments[k].value \notin lang.silent_segments
          /\ segments[k].word_position = k - 1
    /\ [k \in 1..Len(segments) |-> segments[k].value]
         = SelectSeq([k \in 1..Len(raw) |-> raw[k].value],
                     LAMBDA v : v \notin lang.silent_segments)

C2_Witness ==
    /\ pc = "done"
    /\ Len(raw) = 3
    /\ raw[1].value \notin lang.silent_segments
    /\ raw[2].value \in lang.silent_segments
    /\ raw[3].value \notin lang.silent_segments
    /\ Len(segments) = 2
    /\ segments[2].word_position = 1

\* C3: every matched segment is the first entry of multigraphs, in listed
\* order, that occurs in the word at the cursor, and the single character at
\* the cursor only when no entry occurs there; with multigraphs
\* ["ng","n","g"] the word "ng" is matched as the one segment "ng".
C3_FirstListedMatchWins ==
    /\ \A k \in 1..Len(raw) :
          LET hits == {j \in 1..Len(lang.multigraphs) :
                          OccursAt(lang.multigraphs[j], word, raw[k].at)}
          IN  IF hits = {}
              THEN raw[k].value = <<word[raw[k].at + 1]>>
              ELSE \E j \in hits :
                      /\ \A h \in hits : j <= h
                      /\ raw[k].value = lang.multigraphs[j]
    /\ ( /\ pc = "done"
         /\ lang.multigraphs = << <<"n", "g">>, <<"n">>, <<"g">> >>
         /\ word = <<"n", "g">> )
       => [k \in 1..Len(raw) |-> raw[k].value] = << <<"n", "g">> >>

C3_Witness ==
    /\ pc = "done"
    /\ lang.multigraphs = << <<"n", "g">>, <<"n">>, <<"g">> >>
    /\ word = <<"n", "g">>
    /\ Len(raw) = 1
    /\ raw[1].value = <<"n", "g">>

\* The word after the override and the first k substitution rules.
Stage[k \in 0..MaxRules + 1] ==
    IF k = 0
    THEN IF input \in DOMAIN lang.funny_words
         THEN lang.funny_words[input] ELSE input
    ELSE StrReplace(Stage[k - 1],
                    lang.replacement_rules[k][1], lang.replacement_rules[k][2])

\* C4: the word that is tokenized is the override of the original word (one
\* lookup) passed through the substitution rules one after another in list
\* order; rules [("a","b"), ("b","c")] turn "a" into "c".
C4_OverrideThenRulesInOrder ==
    /\ pc # "start" => word = Stage[Len(lang.replacement_rules)]
    /\ ( /\ pc # "start"
         /\ input = <<"a">>
         /\ lang.funny_words = <<>>
         /\ lang.replacement_rules
              = << << <<"a">>, <<"b">> >>, << <<"b">>, <<"c">> >> >> )
       => word = <<"c">>

C4_Witness ==
    /\ pc = "done"
    /\ input = <<"a">>
    /\ lang.funny_words = <<>>
    /\ lang.replacement_rules
         = << << <<"a">>, <<"b">> >>, << <<"b">>, <<"c">> >> >>
    /\ word = <<"c">>
    /\ Len(segments) = 1
    /\ segments[1].value = <<"c">>

(***************************************************************************)
(* Properties of the continuation table.                                   *)
(***************************************************************************)
\* The k values before position c (0-based) of segs, edges before its start.
Window(segs, c, k) ==
    [j \in 1..k |-> IF c + j <= k THEN EDGE ELSE segs[c + j - k]]

\* The segment lists add was called with.
TrainedLists == DOMAIN trained

\* Positions of one segment list at which context is the window.
Sightings(segs, context) ==
    {c \in 0..(Len(segs) - 1) : Window(segs, c, n) = context}

\* Times context was a window over all add calls so far.
Observed(context) ==
    SumOver(TrainedLists,
            [s \in TrainedLists |-> trained[s] * Cardinality(Sightings(s, context))])

ObservedContexts ==
    UNION {{Window(s, c, n) : c \in 0..(Len(s) - 1)} : s \in TrainedLists}

GrandTotal ==
    SumOver(DOMAIN ngram_continuations,
            [context \in DOMAIN ngram_continuations |->
                Denominator(ngram_continuations[context])])

\* C5: the keys of the table are the observed contexts, the counts under a
\* context add up to the number of times it was a window padded[i:i+n],
\* 0 <= i < len(segments), over all add calls, and every count is >= 1.
C5_CountsConserved ==
    /\ DOMAIN ngram_continuations = ObservedContexts
    /\ \A context \in DOMAIN ngram_continuations :
          /\ Denominator(ngram_continuations[context]) = Observed(context)
          /\ \A v \in DOMAIN ngram_continuations[context] :
                ngram_continuations[context][v] >= 1

C5_Witness ==
    /\ n = 1
    /\ TrainCalls = 2
    /\ Cardinality(TrainedLists) = 2
    /\ << <<"a">> >> \in DOMAIN ngram_continuations
    /\ ngram_continuations[<< <<"a">> >>] = (<<"a">> :> 1) @@ (<<"b">> :> 1)
    /\ ngram_continuations[<<EDGE>>] = (<<"a">> :> 2)
    /\ Observed(<<EDGE>>) = 2

\* Some window of the queried list has no entry for its target.
MissingIn(segs) ==
    \E c \in 0..(Len(segs) - 1) :
        \/ Window(segs, c, n) \notin DOMAIN ngram_continuations
        \/ segs[c + 1] \notin DOMAIN ngram_continuations[Window(segs, c, n)]

\* C6: segment_bytes raises, and returns no number, whenever the context is
\* not a key of the table or the target is not a key of its inner mapping;
\* bytes raises whenever that is so for one of its windows.  This includes
\* the table nothing was added to.
C6_UnobservedRaises ==
    /\ ( /\ call.op = "segment_bytes"
         /\ \/ call.context \notin DOMAIN ngram_continuations
            \/ call.segment \notin DOMAIN ngram_continuations[call.context] )
       => result.kind = "KeyError"
    /\ (call.op = "bytes" /\ MissingIn(call.segments))
       => result.kind = "KeyError"

C6_Witness ==
    /\ call.op = "segment_bytes"
    /\ call.context = << <<"a">> >>
    /\ call.segment = <<"a">>
    /\ call.context \in DOMAIN ngram_continuations
    /\ DOMAIN ngram_continuations[call.context] = {<<"b">>}
    /\ result = [kind |-> "KeyError", key |-> <<"a">>]

Terms ==
    IF result.kind # "value" THEN {}
    ELSE IF call.op = "segment_bytes"
         THEN {[count |-> result.count, total |-> result.total]}
         ELSE {result.terms[k] : k \in 1..Len(result.terms)}

\* C8: every cost returned comes from 1 <= count <= total (so it is >= 0);
\* when the target is the only continuation seen after the context,
\* count = total (the cost is 0), as for segment_bytes("b", ["a"]) on an
\* order-1 table that had only ["a","b"] added.
C8_CostNonNegativeZeroWhenUnique ==
    /\ \A t \in Terms : 1 <= t.count /\ t.count <= t.total
    /\ ( /\ call.op = "segment_bytes"
         /\ result.kind = "value"
         /\ DOMAIN ngram_continuations[call.context] = {call.segment} )
       => result.count = result.total
    /\ ( /\ n = 1
         /\ trained = (<< <<"a">>, <<"b">> >> :> 1)
         /\ call = [op |-> "segment_bytes", segment |-> <<"b">>,
                    context |-> << <<"a">> >>] )
       => result = [kind |-> "value", count |-> 1, total |-> 1]

C8_Witness ==
    /\ n = 1
    /\ trained = (<< <<"a">>, <<"b">> >> :> 1)
    /\ call = [op |-> "segment_bytes", segment |-> <<"b">>,
               context |-> << <<"a">> >>]
    /\ result = [kind |-> "value", count |-> 1, total |-> 1]

EdgeFreeTraining ==
    \A s \in TrainedLists : \A k \in 1..Len(s) : s[k] # EDGE

\* C9: when no added segment has the value "#", "#" is a key of no inner
\* mapping; the counts of the whole table add up to the lengths of the added
\* lists; and bytes sums exactly len(segments) costs.
C9_TrailingEdgeNeverTarget ==
    /\ EdgeFreeTraining
       => \A context \in DOMAIN ngram_continuations :
             EDGE \notin DOMAIN ngram_continuations[context]
    /\ GrandTotal = SumOver(TrainedLists,
                            [s \in TrainedLists |-> trained[s] * Len(s)])
    /\ (call.op = "bytes" /\ result.kind = "value")
       => Len(result.terms) = Len(call.segments)

C9_Witness ==
    /\ n = 1
    /\ EdgeFreeTraining
    /\ TrainCalls = 2
    /\ GrandTotal = 4
    /\ call.op = "bytes"
    /\ Len(call.segments) = 2
    /\ result.kind = "value"
    /\ Len(result.terms) = 2

\* Every key and count of the table survives the step, no smaller.
TableGrows ==
    \A context \in DOMAIN ngram_continuations :
        /\ context \in DOMAIN ngram_continuations'
        /\ \A v \in DOMAIN ngram_continuations[context] :
              /\ v \in DOMAIN ngram_continuations'[context]
              /\ ngram_continuations'[context][v]
                   >= ngram_continuations[context][v]

Scorable ==
    /\ \A s \in TrainedLists :
          Bytes(ngram_continuations, s, n).kind = "value"
    /\ (call.op = "bytes" /\ call.segments \in TrainedLists)
       => result.kind = "value"

\* C10: once a list was added at order n, bytes of that list at order n
\* returns a value in every later state, whatever add and query calls came
\* in between, and no step removes a key or lowers a count.
C10_TrainedStaysScorable == []Scorable /\ [][TableGrows]_vars

C10_Witness ==
    /\ n = 2
    /\ TrainCalls = 2
    /\ call.op = "bytes"
    /\ Len(call.segments) = 2
    /\ call.segments \in TrainedLists
    /\ Cardinality(TrainedLists) = 2
    /\ result.kind = "value"

====
